---- MODULE Spec2Model ----
(***************************************************************************)
(* A model of the meddler package: the descriptor builder and its cache    *)
(* (scan.go getFields), the value pipeline (Columns, Values, Targets,      *)
(* WriteTargets), the scan entry points (Scan, ScanRow, ScanAll) and the   *)
(* statement orchestration (Load, Insert, Update, Save, QueryRow,          *)
(* QueryAll) of loadsave.go, run against an executor that stores rows.     *)
(***************************************************************************)
EXTENDS Integers, Sequences, FiniteSets, TLC

VARIABLES
    fieldsCache,   \* scan.go:47  map[reflect.Type]*structData
    StmtCacheFunc, \* loadsave.go:227  "nil", "nostmt", "stmt" or "fail"
    UseReturning,  \* loadsave.go:96  d.UseReturningToGetID
    table,         \* the rows held behind the executor, in insertion order
    inserted,      \* history: generated id -> the record as Insert left it
    cursor,        \* the cursor the caller of Scan holds open
    last,          \* the last call: its operation, inputs, outputs and trace
    fieldsCacheMutex, \* scan.go:48  0 when free, else the goroutine holding it
    callers,       \* the goroutines inside getFields: where each is and what it holds
    builds,        \* history: type -> how often a descriptor of it was stored
    returned,      \* history: the <<type, descriptor, error>> getFields returned
    Debug          \* scan.go:31

vars ==
    <<fieldsCache, StmtCacheFunc, UseReturning, table, inserted, cursor, last,
      fieldsCacheMutex, callers, builds, returned, Debug>>

(***************************************************************************)
(* Values.  A Go value is [k |-> kind, n |-> payload]; strings are         *)
(* numbered (0 is the empty string), so n = 0 is the zero value of every   *)
(* kind.  Nil is the nil interface / nil pointer / SQL NULL.               *)
(***************************************************************************)
V(kind, n) == [k |-> kind, n |-> n]
Nil == [k |-> "nil", n |-> 0]
Zero(kind) == IF kind = "Ptr" THEN Nil ELSE V(kind, 0)

(***************************************************************************)
(* Errors.  NoErr is a nil error, errorString what fmt.Errorf returns,     *)
(* dbErr the wrapper of loadsave.go:11, ErrNoRows the pgx sentinel and     *)
(* DriverError(n) an error raised by the executor or by a cursor.          *)
(***************************************************************************)
NoErr == [type |-> "nil"]
Errorf(msg) == [type |-> "errorString", msg |-> msg]
dbErr(msg, err) == [type |-> "dbErr", msg |-> msg, err |-> err]
ErrNoRows == [type |-> "sentinel", msg |-> <<"no rows in result set">>]
DriverError(what) == [type |-> "driver", msg |-> <<what>>]

\* loadsave.go:23  DriverErr
DriverErr(err) ==
    IF err.type = "dbErr" THEN <<err.err, TRUE>> ELSE <<err, FALSE>>

(***************************************************************************)
(* Record shapes.  A struct field is what reflect.StructField gives        *)
(* getFields: Name, PkgPath ("" when exported), the meddler tag and the    *)
(* Kind of its type.  A tag is a sequence of atoms, "," or a token.        *)
(***************************************************************************)
F(name, pkg, tag, kind) ==
    [Name |-> name, PkgPath |-> pkg, Tag |-> tag, Kind |-> kind]

\* embed_test.go:19  EmbedPerson (Metadata is embedded by value)
EmbedPersonFields ==
    << F("Metadata", "", <<>>, "Struct"),
       F("private", "meddler", <<>>, "Int"),
       F("Email", "", <<>>, "String"),
       F("Ephemeral", "", <<"-">>, "Int"),
       F("Age", "", <<",", "zeroisnull">>, "Int"),
       F("Closed", "", <<"closed", ",", "utctimez">>, "Struct") >>

\* embed_test.go:9  Metadata (SubMeta is embedded through a pointer)
MetadataFields ==
    << F("ID", "", <<"id", ",", "pk">>, "Uint64"),
       F("Name", "", <<"name">>, "String"),
       F("SubMeta", "", <<>>, "Ptr") >>

\* embed_test.go:15  SubMeta
SubMetaFields == << F("Height", "", <<"height">>, "Ptr") >>

PersonFields ==
    << F("Name", "", <<"name">>, "String"),
       F("ID", "", <<"id", ",", "pk">>, "Int64"),
       F("Age", "", <<",", "zeroisnull">>, "Int"),
       F("Ephemeral", "", <<"-">>, "Int") >>

NoPkFields == << F("Name", "", <<"name">>, "String") >>

BlobFields ==
    << F("ID", "", <<"id", ",", "pk">>, "Int64"),
       F("Data", "", <<"data", ",", "utctimez">>, "Int") >>

TwoPkFields ==
    << F("ID", "", <<"id", ",", "pk">>, "Int64"),
       F("Other", "", <<"other", ",", "pk">>, "Int") >>

FloatPkFields == << F("ID", "", <<"id", ",", "pk">>, "Float64") >>

PtrPkFields == << F("ID", "", <<"id", ",", "pk">>, "Ptr") >>

BadMeddlerFields == << F("Name", "", <<"name", ",", "nosuch">>, "String") >>

EventFields == << F("When", "", <<"name", ",", "utctimez">>, "Struct") >>

StampFields == << F("Count", "", <<"name", ",", "utctimez">>, "Int") >>

DupColFields ==
    << F("A", "", <<"name">>, "String"), F("B", "", <<"name">>, "String") >>

\* reflect.Type of a destination: its Kind, and for a pointer the Kind and
\* the fields of the element type.
PtrTo(fields) == [Kind |-> "Ptr", ElemKind |-> "Struct", Fields |-> fields]

TypeOf(t) ==
    CASE t = "*Person" -> PtrTo(PersonFields)
      [] t = "*NoPk" -> PtrTo(NoPkFields)
      [] t = "*Blob" -> PtrTo(BlobFields)
      [] t = "*EmbedPerson" -> PtrTo(EmbedPersonFields)
      [] t = "*Metadata" -> PtrTo(MetadataFields)
      [] t = "*SubMeta" -> PtrTo(SubMetaFields)
      [] t = "*TwoPk" -> PtrTo(TwoPkFields)
      [] t = "*FloatPk" -> PtrTo(FloatPkFields)
      [] t = "*PtrPk" -> PtrTo(PtrPkFields)
      [] t = "*BadMeddler" -> PtrTo(BadMeddlerFields)
      [] t = "*DupCol" -> PtrTo(DupColFields)
      [] t = "*Event" -> PtrTo(EventFields)
      [] t = "*Stamp" -> PtrTo(StampFields)
      [] t = "Person" -> [Kind |-> "Struct", ElemKind |-> "", Fields |-> PersonFields]
      [] t = "*int" -> [Kind |-> "Ptr", ElemKind |-> "Int", Fields |-> <<>>]

\* the types descriptors are asked for
Types ==
    { "*Person", "*NoPk", "*Blob", "*EmbedPerson", "*Metadata",
      "*SubMeta", "*TwoPk", "*FloatPk", "*PtrPk", "*BadMeddler", "*DupCol",
      "*Event", "*Stamp", "Person", "*int" }

\* the names the registry holds
registry == {"identity", "zeroisnull", "utctimez"}

IntKinds == {"Int", "Int8", "Int16", "Int32", "Int64"}
UintKinds == {"Uint", "Uint8", "Uint16", "Uint32", "Uint64"}

(***************************************************************************)
(* strings.Split(tag, ","): the tokens between the commas; an empty tag    *)
(* gives the one token "".                                                 *)
(***************************************************************************)
RECURSIVE SplitFrom(_, _, _, _)
SplitFrom(tag, i, cur, acc) ==
    IF i > Len(tag) THEN Append(acc, cur)
    ELSE IF tag[i] = "," THEN SplitFrom(tag, i + 1, "", Append(acc, cur))
    ELSE SplitFrom(tag, i + 1, tag[i], acc)

Split(tag) == SplitFrom(tag, 1, "", <<>>)

(***************************************************************************)
(* The descriptor builder.  structData is [columns, fields, pk]; fields    *)
(* maps a column to structField [column, index, primaryKey, meddler],      *)
(* index being the Go (0-based) position of the field in its struct.       *)
(***************************************************************************)
EmptyMap == [x \in {} |-> x]
NilData == [columns |-> <<>>, fields |-> EmptyMap, pk |-> ""]

\* pkCheck without its last check: a second primary key goes unnoticed
pkCheckNoDuplicate(f, pk) ==
    IF f.Kind = "Ptr"
    THEN Errorf(<<"meddler found field %s which is marked as the primary key but is a pointer", f.Name>>)
    ELSE IF f.Kind \notin (IntKinds \cup UintKinds)
    THEN Errorf(<<"meddler found field %s which is marked as the primary key, but is not an integer type", f.Name>>)
    ELSE NoErr

\* scan.go:100-114  the checks on a field whose tag holds "pk"; pk is
\* data.pk as found so far
pkCheck(f, pk) ==
    IF f.Kind = "Ptr"
    THEN Errorf(<<"meddler found field %s which is marked as the primary key but is a pointer", f.Name>>)
    ELSE IF f.Kind \notin (IntKinds \cup UintKinds)
    THEN Errorf(<<"meddler found field %s which is marked as the primary key, but is not an integer type", f.Name>>)
    ELSE IF pk # ""
    THEN Errorf(<<"meddler found field %s which is marked as the primary key, but a primary key field was already found", f.Name>>)
    ELSE NoErr

\* scan.go:97-121  the loop over tag[1:], j the Go index into tag
RECURSIVE tagLoop(_, _, _, _, _, _)
tagLoop(f, name, tag, j, pk, meddler) ==
    IF j >= Len(tag) THEN [err |-> NoErr, pk |-> pk, meddler |-> meddler]
    ELSE IF tag[j + 1] = "pk"
    THEN IF pkCheck(f, pk) # NoErr
         THEN [err |-> pkCheck(f, pk), pk |-> pk, meddler |-> meddler]
         ELSE tagLoop(f, name, tag, j + 1, name, meddler)
    ELSE IF tag[j + 1] \in registry
    THEN tagLoop(f, name, tag, j + 1, pk, tag[j + 1])
    ELSE [err |-> Errorf(<<"meddler found field %s with meddler %s, but that meddler is not registered", f.Name, tag[j + 1]>>),
          pk |-> pk, meddler |-> meddler]

\* binds v to a name in Body, so that v is evaluated once
With(v, Body(_)) == Body(v)

\* scan.go:72-133  the loop over the struct's fields, i the Go index
RECURSIVE fieldLoop(_, _, _)
fieldLoop(fields, i, data) ==
    IF i >= Len(fields) THEN [data |-> data, err |-> NoErr]
    ELSE IF fields[i + 1].PkgPath # "" THEN fieldLoop(fields, i + 1, data)
    ELSE With(Split(fields[i + 1].Tag), LAMBDA tag :
         IF Len(tag) > 0 /\ tag[1] = "-" THEN fieldLoop(fields, i + 1, data)
         ELSE With(IF Len(tag) > 0 /\ tag[1] # "" THEN tag[1] ELSE fields[i + 1].Name,
              LAMBDA name :
              With(tagLoop(fields[i + 1], name, tag, 1, data.pk, "identity"), LAMBDA m :
              IF m.err # NoErr THEN [data |-> NilData, err |-> m.err]
              ELSE IF name \in DOMAIN data.fields
              THEN [data |-> NilData,
                    err |-> Errorf(<<"meddler found multiple fields for column %s", name>>)]
              ELSE fieldLoop(fields, i + 1,
                     [columns |-> Append(data.columns, name),
                      fields |-> data.fields @@
                                 (name :> [column |-> name,
                                           index |-> i,
                                           primaryKey |-> (name = m.pk),
                                           meddler |-> m.meddler]),
                      pk |-> m.pk]))))

\* scan.go:51-137  getFields on the cache `cache`: the descriptor, the
\* error and the cache it leaves
getFields(cache, t) ==
    IF t \in DOMAIN cache
    THEN [data |-> cache[t], err |-> NoErr, cache |-> cache]
    ELSE IF TypeOf(t).Kind # "Ptr"
    THEN [data |-> NilData, cache |-> cache,
          err |-> Errorf(<<"meddler called with non-pointer destination %v", t>>)]
    ELSE IF TypeOf(t).ElemKind # "Struct"
    THEN [data |-> NilData, cache |-> cache,
          err |-> Errorf(<<"meddler called with pointer to non-struct %v", t>>)]
    ELSE With(fieldLoop(TypeOf(t).Fields, 0, NilData), LAMBDA r :
         IF r.err # NoErr
         THEN [data |-> NilData, err |-> r.err, cache |-> cache]
         ELSE [data |-> r.data, err |-> NoErr, cache |-> cache @@ (t :> r.data)])

(***************************************************************************)
(* Records.  A record of type t is [type |-> t, f |-> <<field values>>],   *)
(* one value per declared field, in declaration order.                     *)
(***************************************************************************)
FieldKind(src, index) == TypeOf(src.type).Fields[index + 1].Kind
Field(src, index) == src.f[index + 1]
SetField(src, index, v) == [src EXCEPT !.f[index + 1] = v]

\* reflect.New(eltType): a record of type t with every field zero
NewRecord(t) ==
    [type |-> t,
     f |-> [i \in 1..Len(TypeOf(t).Fields) |-> Zero(TypeOf(t).Fields[i].Kind)]]

(***************************************************************************)
(* The transformers bound by tag.  PreWrite turns a field value into the   *)
(* value to store; PreRead says where the cursor scans to ("field": the    *)
(* field itself, "temp": a nullable holder of its own); PostRead finishes  *)
(* the field from what was scanned.                                        *)
(***************************************************************************)
PreWrite(meddler, v) ==
    CASE meddler = "identity" -> [val |-> v, err |-> NoErr]
      [] meddler = "zeroisnull" ->
            [val |-> IF v.n = 0 THEN Nil ELSE v, err |-> NoErr]
      [] meddler = "utctimez" ->
            IF v.k # "Struct"
            THEN [val |-> Nil, err |-> Errorf(<<"TimeMeddler.PreWrite: unknown struct field type">>)]
            ELSE [val |-> V("String", v.n), err |-> NoErr]

PreRead(meddler, kind) ==
    CASE meddler = "identity" -> [target |-> "field", err |-> NoErr]
      [] meddler = "zeroisnull" -> [target |-> "temp", err |-> NoErr]
      [] meddler = "utctimez" ->
            IF kind # "Struct"
            THEN [target |-> "none", err |-> Errorf(<<"TimeMeddler.PreRead: unknown struct field type">>)]
            ELSE [target |-> "temp", err |-> NoErr]

PostRead(meddler, kind, current, scanned) ==
    CASE meddler = "identity" -> [val |-> current, err |-> NoErr]
      [] meddler = "zeroisnull" ->
            [val |-> IF scanned = Nil THEN Zero(kind) ELSE scanned, err |-> NoErr]
      [] meddler = "utctimez" ->
            IF scanned = Nil THEN [val |-> Zero(kind), err |-> NoErr]
            ELSE IF scanned.k # "String"
            THEN [val |-> current, err |-> Errorf(<<"TimeMeddler.PostRead: unable to parse">>)]
            ELSE [val |-> V(kind, scanned.n), err |-> NoErr]

(***************************************************************************)
(* The value pipeline (scan.go).  Each takes the cache it finds and looks  *)
(* the descriptor up through getFields, as the code does.                  *)
(***************************************************************************)
\* scan.go:18  Quote and scan.go:19  Placeholder, "$1" as its two parts
Quote == "\""
Placeholder == <<"$", 1>>

\* scan.go:22  quoted
quoted(s) == <<Quote, s, Quote>>

\* placeholder without the replacement: every placeholder is the first
placeholderFirst(n) == Placeholder

\* scan.go:26  placeholder: Placeholder with its "1" replaced by n
placeholder(n) == <<Placeholder[1], n>>

\* scan.go:140  Columns
Columns(cache, src, includePk) ==
    With(getFields(cache, src.type), LAMBDA g :
        IF g.err # NoErr THEN [names |-> <<>>, err |-> g.err]
        ELSE [names |-> SelectSeq(g.data.columns,
                                  LAMBDA elt : ~(~includePk /\ elt = g.data.pk)),
              err |-> NoErr])

\* scan.go:160  ColumnsQuoted (the joined list is kept as its parts)
ColumnsQuoted(cache, src, includePk) ==
    With(Columns(cache, src, includePk), LAMBDA c :
        [text |-> [i \in 1..Len(c.names) |-> quoted(c.names[i])], err |-> c.err])

\* scan.go:176  PrimaryKey.  The payloads of the model are far below 2^63,
\* where int64(field.Uint()) changes nothing.
PrimaryKey(cache, src) ==
    With(getFields(cache, src.type), LAMBDA g :
        IF g.err # NoErr THEN [name |-> "", pk |-> 0, err |-> g.err]
        ELSE IF g.data.pk = "" THEN [name |-> "", pk |-> 0, err |-> NoErr]
        ELSE IF FieldKind(src, g.data.fields[g.data.pk].index) \in IntKinds \cup UintKinds
        THEN [name |-> g.data.pk, pk |-> Field(src, g.data.fields[g.data.pk].index).n,
              err |-> NoErr]
        ELSE [name |-> "", pk |-> 0,
              err |-> Errorf(<<"meddler found field %s which is marked as the primary key, but is not an integer type", g.data.pk>>)])

\* scan.go:201  SetPrimaryKey: the record it leaves, and the error
SetPrimaryKey(cache, src, pk) ==
    With(getFields(cache, src.type), LAMBDA g :
        IF g.err # NoErr THEN [src |-> src, err |-> g.err]
        ELSE IF g.data.pk = ""
        THEN [src |-> src, err |-> Errorf(<<"meddler.SetPrimaryKey: no primary key field found">>)]
        ELSE IF FieldKind(src, g.data.fields[g.data.pk].index) \in IntKinds \cup UintKinds
        THEN [src |-> SetField(src, g.data.fields[g.data.pk].index,
                               V(FieldKind(src, g.data.fields[g.data.pk].index), pk)),
              err |-> NoErr]
        ELSE [src |-> src,
              err |-> Errorf(<<"meddler found field %s which is marked as the primary key, but is not an integer type", g.data.pk>>)])

\* scan.go:246-264  the loop of SomeValues from column i (1-based) on
RECURSIVE valuesLoop(_, _, _, _, _)
valuesLoop(data, src, columns, i, values) ==
    IF i > Len(columns) THEN [values |-> values, err |-> NoErr]
    ELSE IF columns[i] \notin DOMAIN data.fields
    THEN valuesLoop(data, src, columns, i + 1, Append(values, Nil))
    ELSE With(PreWrite(data.fields[columns[i]].meddler,
                       Field(src, data.fields[columns[i]].index)), LAMBDA w :
         IF w.err # NoErr
         THEN [values |-> <<>>,
               err |-> Errorf(<<"meddler.SomeValues: PreWrite error on column [%s]: %v", columns[i], w.err.msg>>)]
         ELSE valuesLoop(data, src, columns, i + 1, Append(values, w.val)))

\* scan.go:239  SomeValues
SomeValues(cache, src, columns) ==
    With(getFields(cache, src.type), LAMBDA g :
        IF g.err # NoErr THEN [values |-> <<>>, err |-> g.err]
        ELSE valuesLoop(g.data, src, columns, 1, <<>>))

\* scan.go:228  Values
Values(cache, src, includePk) ==
    With(Columns(cache, src, includePk), LAMBDA c :
        IF c.err # NoErr THEN [values |-> <<>>, err |-> c.err]
        ELSE SomeValues(cache, src, c.names))

\* scan.go:271  Placeholders
Placeholders(cache, src, includePk) ==
    With(getFields(cache, src.type), LAMBDA g :
        IF g.err # NoErr THEN [list |-> <<>>, err |-> g.err]
        ELSE With(SelectSeq(g.data.columns,
                            LAMBDA name : ~(~includePk /\ name = g.data.pk)), LAMBDA kept :
             [list |-> [i \in 1..Len(kept) |-> placeholder(i)], err |-> NoErr]))

\* scan.go:293  PlaceholdersString (the joined list is kept as its parts)
PlaceholdersString(cache, src, includePk) == Placeholders(cache, src, includePk)

(***************************************************************************)
(* Cursors.  A cursor is [cols, pending, err, done, closed]: the result    *)
(* column names, the rows not yet delivered, the error it meets once they  *)
(* are delivered (NoErr for a clean end), whether Next has returned false, *)
(* and how often Close was called on it.                                   *)
(***************************************************************************)
Cursor(cols, pending, err) ==
    [cols |-> cols, pending |-> pending, err |-> err, done |-> FALSE, closed |-> 0]

\* rows.Next: whether a row is available, the row, and the cursor it leaves
Next_(rows) ==
    IF rows.pending # <<>>
    THEN [ok |-> TRUE, row |-> Head(rows.pending),
          rows |-> [rows EXCEPT !.pending = Tail(rows.pending)]]
    ELSE [ok |-> FALSE, row |-> <<>>, rows |-> [rows EXCEPT !.done = TRUE]]

\* rows.Err
Err_(rows) == IF rows.done THEN rows.err ELSE NoErr

\* rows.Close
Close_(rows) == [rows EXCEPT !.closed = @ + 1]

\* what the cursor's Scan stores into a location of kind `kind`
Assignable(kind, v) ==
    IF v = Nil THEN kind = "Ptr"
    ELSE \/ kind = "Ptr"
         \/ v.k = kind
         \/ (v.k \in IntKinds \cup UintKinds /\ kind \in IntKinds \cup UintKinds)

Assigned(kind, v) == IF v = Nil \/ kind = "Ptr" THEN v ELSE V(kind, v.n)

\* rows.Scan(targets...): column by column, stopping at the first value a
\* target cannot take; what was stored before stays stored
RECURSIVE rowsScan(_, _, _, _)
rowsScan(dst, targets, row, i) ==
    IF i > Len(targets) THEN [dst |-> dst, targets |-> targets, err |-> NoErr]
    ELSE IF targets[i].to = "field"
    THEN IF Assignable(FieldKind(dst, targets[i].index), row[i])
         THEN rowsScan(SetField(dst, targets[i].index,
                                Assigned(FieldKind(dst, targets[i].index), row[i])),
                       targets, row, i + 1)
         ELSE [dst |-> dst, targets |-> targets, err |-> DriverError("scan")]
    ELSE rowsScan(dst, [targets EXCEPT ![i].val = row[i]], row, i + 1)

\* scan.go:343-359  the loop of Targets from column i (1-based) on
RECURSIVE targetsLoop(_, _, _, _, _)
targetsLoop(data, dst, columns, i, targets) ==
    IF i > Len(columns) THEN [targets |-> targets, err |-> NoErr]
    ELSE IF columns[i] \in DOMAIN data.fields
    THEN With(PreRead(data.fields[columns[i]].meddler,
                      FieldKind(dst, data.fields[columns[i]].index)), LAMBDA r :
         IF r.err # NoErr
         THEN [targets |-> <<>>,
               err |-> Errorf(<<"meddler.Targets: PreRead error on column %s: %v", columns[i], r.err.msg>>)]
         ELSE targetsLoop(data, dst, columns, i + 1,
                Append(targets, [to |-> r.target,
                                 index |-> data.fields[columns[i]].index,
                                 val |-> Nil])))
    ELSE targetsLoop(data, dst, columns, i + 1,
            Append(targets, [to |-> "discard", index |-> -1, val |-> Nil]))

\* scan.go:334  Targets
Targets(cache, dst, columns) ==
    With(getFields(cache, dst.type), LAMBDA g :
        IF g.err # NoErr THEN [targets |-> <<>>, err |-> g.err]
        ELSE targetsLoop(g.data, dst, columns, 1, <<>>))

\* scan.go:379-392  the loop of WriteTargets from column i (1-based) on
RECURSIVE writeLoop(_, _, _, _, _)
writeLoop(data, dst, columns, targets, i) ==
    IF i > Len(columns) THEN [dst |-> dst, err |-> NoErr]
    ELSE IF columns[i] \in DOMAIN data.fields
    THEN With(PostRead(data.fields[columns[i]].meddler,
                       FieldKind(dst, data.fields[columns[i]].index),
                       Field(dst, data.fields[columns[i]].index),
                       targets[i].val), LAMBDA r :
         IF r.err # NoErr
         THEN [dst |-> dst,
               err |-> Errorf(<<"meddler.WriteTargets: PostRead error on column [%s]: %v", columns[i], r.err.msg>>)]
         ELSE writeLoop(data, SetField(dst, data.fields[columns[i]].index, r.val),
                        columns, targets, i + 1))
    ELSE writeLoop(data, dst, columns, targets, i + 1)

\* scan.go:367  WriteTargets
WriteTargets(cache, dst, columns, targets) ==
    IF Len(columns) # Len(targets)
    THEN [dst |-> dst,
          err |-> Errorf(<<"meddler.WriteTargets: mismatch in number of columns (%d) and targets (%d)", Len(columns), Len(targets)>>)]
    ELSE With(getFields(cache, dst.type), LAMBDA g :
         IF g.err # NoErr THEN [dst |-> dst, err |-> g.err]
         ELSE writeLoop(g.data, dst, columns, targets, 1))

\* noRow with the sentinel wrapped like an executor failure
noRowWrapped(rows) ==
    IF Err_(rows) # NoErr THEN Err_(rows)
    ELSE dbErr(<<"meddler.scanRow: no rows">>, ErrNoRows)

\* scan.go:304-309  scanRow when Next reports no row; rows is the cursor
\* Next left
noRow(rows) == IF Err_(rows) # NoErr THEN Err_(rows) ELSE ErrNoRows

\* scan.go:302  scanRow: the error, the record and the cursor it leaves
scanRow(cache, rows, dst, columns) ==
    With(Next_(rows), LAMBDA n :
    IF ~n.ok THEN [err |-> noRow(n.rows), dst |-> dst, rows |-> n.rows]
    ELSE With(Targets(cache, dst, columns), LAMBDA t :
    IF t.err # NoErr THEN [err |-> t.err, dst |-> dst, rows |-> n.rows]
    ELSE With(rowsScan(dst, t.targets, n.row, 1), LAMBDA s :
    IF s.err # NoErr THEN [err |-> s.err, dst |-> s.dst, rows |-> n.rows]
    ELSE With(WriteTargets(cache, s.dst, columns, s.targets), LAMBDA w :
    IF w.err # NoErr THEN [err |-> w.err, dst |-> w.dst, rows |-> n.rows]
    ELSE [err |-> Err_(n.rows), dst |-> w.dst, rows |-> n.rows]))))

\* scan.go:400  Scan: the error, the record, the cursor and the cache it leaves
Scan(cache, rows, dst) ==
    With(getFields(cache, dst.type), LAMBDA g :
    IF g.err # NoErr
    THEN [err |-> g.err, dst |-> dst, rows |-> rows, cache |-> g.cache]
    ELSE With(scanRow(g.cache, rows, dst, rows.cols), LAMBDA r :
         [err |-> r.err, dst |-> r.dst, rows |-> r.rows, cache |-> g.cache]))

\* ScanRow without the deferred Close
deferNothing(rows) == rows

\* scan.go:422  defer rows.Close()
deferClose(rows) == Close_(rows)

\* scan.go:420  ScanRow
ScanRow(cache, rows, dst) ==
    With(Scan(cache, rows, dst), LAMBDA r : [r EXCEPT !.rows = deferClose(r.rows)])

\* the slice set to the new element instead of appended to
sliceReplace(elems, elt) == <<elt>>

\* scan.go:480  sliceVal.Set(reflect.Append(sliceVal, eltVal))
sliceAppend(elems, elt) == Append(elems, elt)

\* scan.go:466-481  the loop of ScanAll: the error, the elements and the
\* cursor it leaves
RECURSIVE scanAllLoop(_, _, _, _, _)
scanAllLoop(cache, rows, eltType, cols, elems) ==
    With(scanRow(cache, rows, NewRecord(eltType), cols), LAMBDA r :
    IF r.err # NoErr
    THEN [err |-> IF r.err = ErrNoRows THEN NoErr ELSE r.err,
          elems |-> elems, rows |-> r.rows]
    ELSE scanAllLoop(cache, r.rows, eltType, cols, sliceAppend(elems, r.dst)))

\* scan.go:432  defer rows.Close()
deferCloseAll(rows) == Close_(rows)

\* scan.go:430  ScanAll.  A destination is [shape, elt, elems]: shape is
\* the Go type of dst with T for the struct ("*[]*T" is the one accepted),
\* elt the type *T and elems the slice's elements.
ScanAll(cache, rows, dst) ==
    LET fail(err, c) ==
            [err |-> err, dst |-> dst, rows |-> deferCloseAll(rows), cache |-> c]
    IN  IF dst.shape = "[]*T"
        THEN fail(Errorf(<<"ScanAll called with non-pointer destination: %T", dst.shape>>), cache)
        ELSE IF dst.shape = "*T"
        THEN fail(Errorf(<<"ScanAll called with pointer to non-slice: %T", dst.shape>>), cache)
        ELSE IF dst.shape = "*[]T"
        THEN fail(Errorf(<<"ScanAll expects element to be pointers, found %T", dst.shape>>), cache)
        ELSE IF dst.shape = "*[]*int"
        THEN fail(Errorf(<<"ScanAll expects element to be pointers to structs, found %T", dst.shape>>), cache)
        ELSE With(getFields(cache, dst.elt), LAMBDA g :
             IF g.err # NoErr THEN fail(g.err, g.cache)
             ELSE With(scanAllLoop(g.cache, rows, dst.elt, rows.cols, dst.elems), LAMBDA r :
                  [err |-> r.err, dst |-> [dst EXCEPT !.elems = r.elems],
                   rows |-> deferCloseAll(r.rows), cache |-> g.cache]))

(***************************************************************************)
(* The executor (loadsave.go:32 DB) over one table with the serial column  *)
(* SerialColumn and a nullable column for every other name.  A statement   *)
(* is kept as the parts fmt.Sprintf joins; the executor unquotes the       *)
(* identifiers and binds placeholder $n to the n-th argument.              *)
(***************************************************************************)
SerialColumn == "id"
Unquote(q) == q[2]
Bind(args, ph) == args[ph[2]]
Bound(args, ph) == ph[2] \in 1..Len(args)
IsInteger(v) == v.k \in IntKinds \cup UintKinds
SqlEq(a, b) ==
    a # Nil /\ b # Nil /\ a.n = b.n /\ (a.k = b.k \/ (IsInteger(a) /\ IsInteger(b)))

\* a SELECT: the result rows, each the values of the selected columns
dbSelect(tbl, q, args) ==
    LET hit(r) == \/ q.where = <<>>
                  \/ /\ Unquote(q.where) \in DOMAIN r
                     /\ SqlEq(r[Unquote(q.where)], Bind(args, q.ph))
        found == SelectSeq(tbl, hit)
    IN  [i \in 1..Len(found) |->
            [j \in 1..Len(q.columns) |->
                IF Unquote(q.columns[j]) \in DOMAIN found[i]
                THEN found[i][Unquote(q.columns[j])] ELSE Nil]]

\* whether the executor accepts the statement with these arguments
dbAccepts(q, args) ==
    CASE q.verb = "SELECT" -> q.where = <<>> \/ Bound(args, q.ph)
      [] q.verb = "INSERT" ->
            /\ Len(q.names) = Len(q.values)
            /\ \A i \in 1..Len(q.values) : Bound(args, q.values[i])
            /\ \A i, j \in 1..Len(q.names) : q.names[i] = q.names[j] => i = j
      [] q.verb = "UPDATE" ->
            /\ Len(q.pairs) > 0
            /\ \A i \in 1..Len(q.pairs) : Bound(args, q.pairs[i][2])
            /\ Bound(args, q.ph)

\* an INSERT: the row it adds, with the next serial number
dbInsertRow(tbl, q, args) ==
    LET named == {Unquote(q.names[i]) : i \in 1..Len(q.names)}
        at(c) == CHOOSE i \in 1..Len(q.names) : Unquote(q.names[i]) = c
    IN  [c \in named \cup {SerialColumn} |->
            IF c \in named THEN Bind(args, q.values[at(c)])
            ELSE V("Int64", Len(tbl) + 1)]

\* an UPDATE: the table it leaves
dbUpdate(tbl, q, args) ==
    LET set == {Unquote(q.pairs[i][1]) : i \in 1..Len(q.pairs)}
        at(c) == CHOOSE i \in 1..Len(q.pairs) : Unquote(q.pairs[i][1]) = c
        hit(r) == /\ Unquote(q.where) \in DOMAIN r
                  /\ SqlEq(r[Unquote(q.where)], Bind(args, q.ph))
    IN  [i \in 1..Len(tbl) |->
            IF hit(tbl[i])
            THEN [c \in DOMAIN tbl[i] \cup set |->
                    IF c \in set THEN Bind(args, q.pairs[at(c)][2]) ELSE tbl[i][c]]
            ELSE tbl[i]]

\* the ids of the rows an UPDATE changes
dbUpdated(tbl, q, args) ==
    {i \in 1..Len(tbl) :
        /\ Unquote(q.where) \in DOMAIN tbl[i]
        /\ SqlEq(tbl[i][Unquote(q.where)], Bind(args, q.ph))}

(***************************************************************************)
(* The three run helpers of loadsave.go.  hook is StmtCacheFunc: "nil",    *)
(* "nostmt" (the hook returns no statement), "stmt" (it returns a prepared *)
(* statement) or "fail" (it returns an error).  fault is what goes wrong   *)
(* at the executor: "none", "call" (the call itself fails) or "result"     *)
(* (the call succeeds and reading its result fails).  calls is the trace   *)
(* of hook lookups and executor operations.                                *)
(***************************************************************************)
NoCursor == Cursor(<<>>, <<>>, NoErr)
Lookup(hook, q) == IF hook = "nil" THEN <<>> ELSE <<[fn |-> "StmtCacheFunc", q |-> q]>>
Via(hook, method) ==
    IF hook = "stmt" THEN <<"stmt", method>> ELSE <<"db", method>>

\* loadsave.go:226  runQuery
runQuery(hook, tbl, fault, q, args) ==
    LET calls == Append(Lookup(hook, q), [fn |-> Via(hook, "Query"), q |-> q, args |-> args])
    IN  IF hook = "fail"
        THEN [rows |-> NoCursor, err |-> DriverError("prepare"), calls |-> Lookup(hook, q)]
        ELSE IF fault = "call" \/ ~dbAccepts(q, args)
        THEN [rows |-> NoCursor, err |-> DriverError("query"), calls |-> calls]
        ELSE [rows |-> Cursor([j \in 1..Len(q.columns) |-> Unquote(q.columns[j])],
                              dbSelect(tbl, q, args),
                              IF fault = "result" THEN DriverError("rows") ELSE NoErr),
              err |-> NoErr, calls |-> calls]

\* loadsave.go:239  runQueryRow, for INSERT ... RETURNING: the one-row
\* cursor is [val, err], err being what its Scan will return
runQueryRow(hook, tbl, fault, q, args) ==
    LET calls == Append(Lookup(hook, q), [fn |-> Via(hook, "QueryRow"), q |-> q, args |-> args])
        row == dbInsertRow(tbl, q, args)
    IN  IF hook = "fail"
        THEN [row |-> [val |-> Nil, err |-> NoErr], err |-> DriverError("prepare"),
              calls |-> Lookup(hook, q), table |-> tbl]
        ELSE IF fault = "call" \/ ~dbAccepts(q, args)
        THEN [row |-> [val |-> Nil, err |-> DriverError("queryrow")], err |-> NoErr,
              calls |-> calls, table |-> tbl]
        ELSE [row |-> [val |-> row[Unquote(q.returning)],
                       err |-> IF fault = "result" THEN DriverError("scan") ELSE NoErr],
              err |-> NoErr, calls |-> calls, table |-> Append(tbl, row)]

\* loadsave.go:252  runExec: result is [id, err], what LastInsertId returns
runExec(hook, tbl, fault, q, args) ==
    LET calls == Append(Lookup(hook, q), [fn |-> Via(hook, "Exec"), q |-> q, args |-> args])
        none == [id |-> 0, err |-> NoErr]
    IN  IF hook = "fail"
        THEN [result |-> none, err |-> DriverError("prepare"),
              calls |-> Lookup(hook, q), table |-> tbl]
        ELSE IF fault = "call" \/ ~dbAccepts(q, args)
        THEN [result |-> none, err |-> DriverError("exec"), calls |-> calls, table |-> tbl]
        ELSE IF q.verb = "INSERT"
        THEN [result |-> [id |-> Len(tbl) + 1,
                          err |-> IF fault = "result" THEN DriverError("lastid") ELSE NoErr],
              err |-> NoErr, calls |-> calls,
              table |-> Append(tbl, dbInsertRow(tbl, q, args))]
        ELSE [result |-> none, err |-> NoErr, calls |-> calls,
              table |-> dbUpdate(tbl, q, args)]

(***************************************************************************)
(* The orchestration of loadsave.go.  Each operation gives                 *)
(* [ret, rec, cache, table, calls, rows, ops]: the error returned, the     *)
(* record as it is left, the cache and the table as they are left, the     *)
(* trace of hook lookups and executor operations, the cursor as it is left *)
(* (NoCursor when none was obtained) and the operations entered.           *)
(***************************************************************************)
Result(ret, rec, cache, tbl, calls, rows, ops) ==
    [ret |-> ret, rec |-> rec, cache |-> cache, table |-> tbl,
     calls |-> calls, rows |-> rows, ops |-> ops]

\* loadsave.go:40  Load
Load(cache, hook, tbl, fault, tableName, dst, pk) ==
    LET stop(err, c) == Result(err, dst, c, tbl, <<>>, NoCursor, <<"Load">>)
    IN  With(getFields(cache, dst.type).cache, LAMBDA c :
        With(ColumnsQuoted(cache, dst, TRUE), LAMBDA columns :
        IF columns.err # NoErr THEN stop(columns.err, c)
        ELSE With(PrimaryKey(c, dst), LAMBDA p :
        IF p.err # NoErr THEN stop(p.err, c)
        ELSE IF p.name = "" THEN stop(Errorf(<<"meddler.Load: no primary key field found">>), c)
        ELSE With(runQuery(hook, tbl, fault,
                           [verb |-> "SELECT", columns |-> columns.text,
                            table |-> quoted(tableName), where |-> quoted(p.name),
                            ph |-> Placeholder],
                           <<V("Int64", pk)>>), LAMBDA r :
        IF r.err # NoErr
        THEN Result(dbErr(<<"meddler.Load: DB error in Query">>, r.err),
                    dst, c, tbl, r.calls, NoCursor, <<"Load">>)
        ELSE With(ScanRow(c, r.rows, dst), LAMBDA s :
             Result(s.err, s.dst, c, tbl, r.calls, s.rows, <<"Load">>))))))

\* Insert without the check of the primary key
insertRejectsNothing(pkName, pkValue) == FALSE

\* loadsave.go:76  the condition under which Insert refuses the record
insertRejects(pkName, pkValue) == pkName # "" /\ pkValue # 0

\* loadsave.go:96-110  Insert asking for the generated key with RETURNING
insertReturning(c, hook, tbl, fault, q, values, src) ==
    With(runQueryRow(hook, tbl, fault, q, values), LAMBDA row :
    IF row.err # NoErr
    THEN Result(row.err, src, c, row.table, row.calls, NoCursor, <<"Insert">>)
    ELSE IF row.row.err # NoErr
    THEN Result(dbErr(<<"meddler.Insert: DB error in QueryRow">>, row.row.err),
                src, c, row.table, row.calls, NoCursor, <<"Insert">>)
    ELSE With(SetPrimaryKey(c, src, row.row.val.n), LAMBDA set :
         IF set.err # NoErr
         THEN Result(Errorf(<<"meddler.Insert: Error saving updated pk: %v", set.err.msg>>),
                     src, c, row.table, row.calls, NoCursor, <<"Insert">>)
         ELSE Result(NoErr, set.src, c, row.table, row.calls, NoCursor, <<"Insert">>)))

\* loadsave.go:111-124  Insert asking for the generated key with LastInsertId
insertLastId(c, hook, tbl, fault, q, values, src) ==
    With(runExec(hook, tbl, fault, q, values), LAMBDA exec :
    IF exec.err # NoErr
    THEN Result(dbErr(<<"meddler.Insert: DB error in Exec">>, exec.err),
                src, c, exec.table, exec.calls, NoCursor, <<"Insert">>)
    ELSE IF exec.result.err # NoErr
    THEN Result(dbErr(<<"meddler.Insert: DB error getting new primary key value">>, exec.result.err),
                src, c, exec.table, exec.calls, NoCursor, <<"Insert">>)
    ELSE With(SetPrimaryKey(c, src, exec.result.id), LAMBDA set :
         IF set.err # NoErr
         THEN Result(Errorf(<<"meddler.Insert: Error saving updated pk: %v", set.err.msg>>),
                     src, c, exec.table, exec.calls, NoCursor, <<"Insert">>)
         ELSE Result(NoErr, set.src, c, exec.table, exec.calls, NoCursor, <<"Insert">>)))

\* loadsave.go:125-130  Insert of a record without primary key
insertPlain(c, hook, tbl, fault, q, values, src) ==
    With(runExec(hook, tbl, fault, q, values), LAMBDA exec :
    IF exec.err # NoErr
    THEN Result(dbErr(<<"meddler.Insert: DB error in Exec">>, exec.err),
                src, c, exec.table, exec.calls, NoCursor, <<"Insert">>)
    ELSE Result(NoErr, src, c, exec.table, exec.calls, NoCursor, <<"Insert">>))

\* loadsave.go:71  Insert
Insert(cache, hook, returning, tbl, fault, tableName, src) ==
    LET stop(err, c) == Result(err, src, c, tbl, <<>>, NoCursor, <<"Insert">>)
    IN  With(getFields(cache, src.type).cache, LAMBDA c :
        With(PrimaryKey(cache, src), LAMBDA p :
        IF p.err # NoErr THEN stop(p.err, c)
        ELSE IF insertRejects(p.name, p.pk)
        THEN stop(Errorf(<<"meddler.Insert: primary key must be zero">>), c)
        ELSE With(ColumnsQuoted(c, src, FALSE), LAMBDA namesPart :
        IF namesPart.err # NoErr THEN stop(namesPart.err, c)
        ELSE With(PlaceholdersString(c, src, FALSE), LAMBDA valuesPart :
        IF valuesPart.err # NoErr THEN stop(valuesPart.err, c)
        ELSE With(Values(c, src, FALSE), LAMBDA values :
        IF values.err # NoErr THEN stop(values.err, c)
        ELSE With([verb |-> "INSERT", table |-> quoted(tableName),
                   names |-> namesPart.text, values |-> valuesPart.list,
                   returning |-> <<>>], LAMBDA q :
        IF returning /\ p.name # ""
        THEN insertReturning(c, hook, tbl, fault,
                             [q EXCEPT !.returning = quoted(p.name)], values.values, src)
        ELSE IF p.name # ""
        THEN insertLastId(c, hook, tbl, fault, q, values.values, src)
        ELSE insertPlain(c, hook, tbl, fault, q, values.values, src)))))))

\* updateRejects with pkValue == 0 in place of pkValue < 1
updateRejectsOnlyZero(pkName, pkValue) ==
    IF pkName = "" THEN Errorf(<<"meddler.Update: no primary key field">>)
    ELSE IF pkValue = 0 THEN Errorf(<<"meddler.Update: primary key must be an integer > 0">>)
    ELSE NoErr

\* loadsave.go:164-169  the error with which Update refuses the record
updateRejects(pkName, pkValue) ==
    IF pkName = "" THEN Errorf(<<"meddler.Update: no primary key field">>)
    ELSE IF pkValue < 1 THEN Errorf(<<"meddler.Update: primary key must be an integer > 0">>)
    ELSE NoErr

Min(a, b) == IF a < b THEN a ELSE b

\* loadsave.go:154-158  the column=placeholder pairs
updatePairs(names, placeholders) ==
    [i \in 1..Min(Len(names), Len(placeholders)) |-> <<quoted(names[i]), placeholders[i]>>]

\* loadsave.go:138  Update
Update(cache, hook, tbl, fault, tableName, src) ==
    LET stop(err, c) == Result(err, src, c, tbl, <<>>, NoCursor, <<"Update">>)
    IN  With(getFields(cache, src.type).cache, LAMBDA c :
        With(Columns(cache, src, FALSE), LAMBDA names :
        IF names.err # NoErr THEN stop(names.err, c)
        ELSE With(Placeholders(c, src, FALSE), LAMBDA placeholders :
        IF placeholders.err # NoErr THEN stop(placeholders.err, c)
        ELSE With(Values(c, src, FALSE), LAMBDA values :
        IF values.err # NoErr THEN stop(values.err, c)
        ELSE With(PrimaryKey(c, src), LAMBDA p :
        IF p.err # NoErr THEN stop(p.err, c)
        ELSE With(updateRejects(p.name, p.pk), LAMBDA rejected :
        IF rejected # NoErr THEN stop(rejected, c)
        ELSE With(runExec(hook, tbl, fault,
                          [verb |-> "UPDATE", table |-> quoted(tableName),
                           pairs |-> updatePairs(names.names, placeholders.list),
                           where |-> quoted(p.name),
                           ph |-> placeholder(Len(placeholders.list) + 1)],
                          Append(values.values, V("Int64", p.pk))), LAMBDA exec :
        IF exec.err # NoErr
        THEN Result(dbErr(<<"meddler.Update: DB error in Exec">>, exec.err),
                    src, c, exec.table, exec.calls, NoCursor, <<"Update">>)
        ELSE Result(NoErr, src, c, exec.table, exec.calls, NoCursor, <<"Update">>))))))))

\* saveUpdates without the test of the value
saveUpdatesWhenKeyed(pkName, pkValue) == pkName # ""

\* loadsave.go:192  the condition under which Save calls Update
saveUpdates(pkName, pkValue) == pkName # "" /\ pkValue # 0

\* what a call made by Save returns, with Save ahead of it in the trace
Via_(op, r) == [r EXCEPT !.ops = <<op>> \o @]

\* loadsave.go:187  Save
Save(cache, hook, returning, tbl, fault, tableName, src) ==
    With(getFields(cache, src.type).cache, LAMBDA c :
    With(PrimaryKey(cache, src), LAMBDA p :
    IF p.err # NoErr THEN Result(p.err, src, c, tbl, <<>>, NoCursor, <<"Save">>)
    ELSE IF saveUpdates(p.name, p.pk)
    THEN Via_("Save", Update(c, hook, tbl, fault, tableName, src))
    ELSE Via_("Save", Insert(c, hook, returning, tbl, fault, tableName, src))))

\* loadsave.go:202  QueryRow
QueryRow(cache, hook, tbl, fault, dst, query, args) ==
    With(runQuery(hook, tbl, fault, query, args), LAMBDA r :
    IF r.err # NoErr
    THEN Result(r.err, dst, cache, tbl, r.calls, NoCursor, <<"QueryRow">>)
    ELSE With(ScanRow(cache, r.rows, dst), LAMBDA s :
         Result(s.err, s.dst, s.cache, tbl, r.calls, s.rows, <<"QueryRow">>)))

\* loadsave.go:215  QueryAll
QueryAll(cache, hook, tbl, fault, dst, query, args) ==
    With(runQuery(hook, tbl, fault, query, args), LAMBDA r :
    IF r.err # NoErr
    THEN Result(r.err, dst, cache, tbl, r.calls, NoCursor, <<"QueryAll">>)
    ELSE With(ScanAll(cache, r.rows, dst), LAMBDA s :
         Result(s.err, s.dst, s.cache, tbl, r.calls, s.rows, <<"QueryAll">>)))

(***************************************************************************)
(* The inputs of the calls.                                                *)
(***************************************************************************)
MaxRows == 2
MaxPending == 2

TableName == "t"
Faults == {"none", "call", "result"}
Hooks == {"nil", "nostmt", "stmt", "fail"}

Rec(t, f) == [type |-> t, f |-> f]

\* the records handed to Insert, Update and Save
Records ==
    {Rec("*Person", <<V("String", 1), V("Int64", id), V("Int", age), V("Int", 1)>>) :
        id \in -1..1, age \in 0..1}
    \cup {Rec("*NoPk", <<V("String", nm)>>) : nm \in 0..1}
    \cup {Rec("*Blob", <<V("Int64", id), V("Int", 0)>>) : id \in 0..1}
    \cup {Rec("*TwoPk", <<V("Int64", 1), V("Int", 0)>>)}

\* the records handed to Load and QueryRow to be filled
Destinations ==
    {NewRecord(t) : t \in {"*Person", "*NoPk", "*TwoPk"}}
    \cup {Rec("*Person", <<V("String", 0), V("Int64", 2), V("Int", 1), V("Int", 1)>>)}

\* the records handed to Scan and ScanRow to be filled
ScanDestinations == Destinations \cup {NewRecord(t) : t \in {"*Event", "*Stamp"}}

\* the destinations handed to QueryAll
Old(t) == SetField(NewRecord(t), 0, V(TypeOf(t).Fields[1].Kind, 2))

Slice(t, elems) == [shape |-> "*[]*T", elt |-> t, elems |-> elems]

Slices ==
    {Slice(t, <<>>) : t \in {"*Person", "*NoPk", "*TwoPk"}}
    \cup {Slice(t, <<Old(t)>>) : t \in {"*Person", "*NoPk"}}
    \cup {[shape |-> "*T", elt |-> "*Person", elems |-> <<>>]}

\* the destinations handed to ScanAll
ScanSlices ==
    Slices \cup {Slice("*Event", <<>>), Slice("*Event", <<Old("*Event")>>)}
    \cup {Slice("*Stamp", <<>>)}
    \cup {[shape |-> sh, elt |-> "*Person", elems |-> <<>>] :
            sh \in {"[]*T", "*[]T", "*[]*int"}}

\* the result columns of the statements and cursors of the model
CursorColumns == {<<"name", "id">>, <<"name", "extra">>}

\* the statements handed to QueryRow and QueryAll
Queries ==
    {[verb |-> "SELECT", columns |-> [i \in 1..Len(cols) |-> quoted(cols[i])],
      table |-> quoted(TableName), where |-> <<>>, ph |-> <<>>] :
        cols \in CursorColumns}

\* the cursors a caller may hold: the rows of each are drawn per column
ColumnValues(col) ==
    IF col = "id" THEN {V("Int64", 1), Nil} ELSE {V("String", 1), Nil}

RowsOver(cols) ==
    {r \in [1..Len(cols) -> {V("Int64", 1), V("String", 1), Nil}] :
        \A i \in 1..Len(cols) : r[i] \in ColumnValues(cols[i])}

CursorsOver(cols) ==
    {Cursor(cols, pending, err) :
        pending \in UNION {[1..n -> RowsOver(cols)] : n \in 0..MaxPending},
        err \in {NoErr, DriverError("rows")}}

Cursors == UNION {CursorsOver(cols) : cols \in CursorColumns}

\* the goroutines that call getFields at the same time
NumCallers == 2
Callers == 1..NumCallers

\* a goroutine outside getFields
Outside == [pc |-> "outside", type |-> "", data |-> NilData, err |-> NoErr]

\* no goroutine is inside getFields, and Debug has the value of scan.go:31
Sequential ==
    /\ fieldsCacheMutex = 0
    /\ callers = [c \in Callers |-> Outside]
    /\ builds = EmptyMap
    /\ returned = {}
    /\ Debug = TRUE

\* the calls of the sequential specifications leave the goroutines alone
Quiet == UNCHANGED <<fieldsCacheMutex, callers, builds, returned, Debug>>

(***************************************************************************)
(* The state machine.  Each action is one call of an exported function.    *)
(***************************************************************************)
Init ==
    /\ Sequential
    /\ fieldsCache = EmptyMap
    /\ StmtCacheFunc \in Hooks
    /\ UseReturning \in BOOLEAN
    /\ table = <<>>
    /\ inserted = EmptyMap
    /\ cursor = NoCursor
    /\ last = [op |-> "none"]

Called(op, src, arg, fault, r) ==
    [op |-> op, src |-> src, arg |-> arg, fault |-> fault, before |-> table,
     ret |-> r.ret, rec |-> r.rec, calls |-> r.calls, rows |-> r.rows, ops |-> r.ops]

\* the history after an Insert: a record that got its generated id
Remember(r) ==
    IF r.ret = NoErr /\ Len(r.table) > Len(table) /\ PrimaryKey(r.cache, r.rec).name # ""
    THEN (Len(r.table) :> r.rec) @@ inserted
    ELSE inserted

\* the history after an Update: the rows it changed are no longer as inserted
Forget(r) ==
    [id \in {i \in DOMAIN inserted : i \in 1..Len(table) /\ r.table[i] = table[i]} |->
        inserted[id]]

Config == UNCHANGED <<StmtCacheFunc, UseReturning, cursor>> /\ Quiet

LoadOp ==
    /\ last.op = "none"
    /\ \E dst \in Destinations, pk \in 0..MaxRows, fault \in Faults :
        \E r \in {Load(fieldsCache, StmtCacheFunc, table, fault, TableName, dst, pk)} :
                /\ fieldsCache' = r.cache
                /\ last' = Called("Load", dst, pk, fault, r)
                /\ UNCHANGED <<table, inserted>>
                /\ Config

InsertOp ==
    /\ last.op = "none"
    /\ \E src \in Records, fault \in Faults :
        \E r \in {Insert(fieldsCache, StmtCacheFunc, UseReturning, table, fault, TableName, src)} :
                /\ Len(r.table) <= MaxRows
                /\ fieldsCache' = r.cache
                /\ table' = r.table
                /\ inserted' = Remember(r)
                /\ last' = Called("Insert", src, 0, fault, r)
                /\ Config

UpdateOp ==
    /\ last.op = "none"
    /\ \E src \in Records, fault \in Faults :
        \E r \in {Update(fieldsCache, StmtCacheFunc, table, fault, TableName, src)} :
                /\ fieldsCache' = r.cache
                /\ table' = r.table
                /\ inserted' = Forget(r)
                /\ last' = Called("Update", src, 0, fault, r)
                /\ Config

SaveOp ==
    /\ last.op = "none"
    /\ \E src \in Records, fault \in Faults :
        \E r \in {Save(fieldsCache, StmtCacheFunc, UseReturning, table, fault, TableName, src)} :
                /\ Len(r.table) <= MaxRows
                /\ fieldsCache' = r.cache
                /\ table' = r.table
                /\ inserted' = IF Len(r.table) > Len(table) THEN Remember(r) ELSE Forget(r)
                /\ last' = Called("Save", src, 0, fault, r)
                /\ Config

QueryRowOp ==
    /\ last.op = "none"
    /\ \E dst \in Destinations, q \in Queries, fault \in Faults :
        \E r \in {QueryRow(fieldsCache, StmtCacheFunc, table, fault, dst, q, <<>>)} :
                /\ fieldsCache' = r.cache
                /\ last' = Called("QueryRow", dst, q, fault, r)
                /\ UNCHANGED <<table, inserted>>
                /\ Config

QueryAllOp ==
    /\ last.op = "none"
    /\ \E dst \in Slices, q \in Queries, fault \in Faults :
        \E r \in {QueryAll(fieldsCache, StmtCacheFunc, table, fault, dst, q, <<>>)} :
                /\ fieldsCache' = r.cache
                /\ last' = Called("QueryAll", dst, q, fault, r)
                /\ UNCHANGED <<table, inserted>>
                /\ Config

\* the caller takes the result of the call and is free to call again
Return ==
    /\ last.op # "none"
    /\ last' = [op |-> "none"]
    /\ UNCHANGED <<fieldsCache, StmtCacheFunc, UseReturning, table, inserted, cursor>>
    /\ Quiet

Next ==
    LoadOp \/ InsertOp \/ UpdateOp \/ SaveOp \/ QueryRowOp \/ QueryAllOp \/ Return

Spec == Init /\ [][Next]_vars

(***************************************************************************)
(* The scan entry points called on a cursor the caller obtained itself,    *)
(* next to Load, QueryRow and QueryAll over a table that stays empty.      *)
(***************************************************************************)
InitScan ==
    /\ Sequential
    /\ fieldsCache = EmptyMap
    /\ StmtCacheFunc = "nil"
    /\ UseReturning = FALSE
    /\ table = <<>>
    /\ inserted = EmptyMap
    /\ cursor = NoCursor
    /\ last = [op |-> "none"]

Scanned(op, dst, r) ==
    [op |-> op, dst |-> dst, before |-> cursor, ret |-> r.err, rec |-> r.dst, rows |-> r.rows]

Store == UNCHANGED <<StmtCacheFunc, UseReturning, table, inserted>> /\ Quiet

\* the caller obtains a cursor from its executor
OpenOp ==
    /\ last.op = "none"
    /\ \E c \in Cursors :
        /\ cursor = NoCursor \/ cursor.closed > 0
        /\ cursor' = c
        /\ UNCHANGED <<fieldsCache, last>>
        /\ Store

ScanOp ==
    /\ last.op = "none"
    /\ \E dst \in ScanDestinations :
        \E r \in {Scan(fieldsCache, cursor, dst)} :
                /\ cursor # NoCursor /\ cursor.closed = 0
                /\ fieldsCache' = r.cache
                /\ cursor' = r.rows
                /\ last' = Scanned("Scan", dst, r)
                /\ Store

ScanRowOp ==
    /\ last.op = "none"
    /\ \E dst \in ScanDestinations :
        \E r \in {ScanRow(fieldsCache, cursor, dst)} :
                /\ cursor # NoCursor /\ cursor.closed = 0
                /\ fieldsCache' = r.cache
                /\ cursor' = r.rows
                /\ last' = Scanned("ScanRow", dst, r)
                /\ Store

ScanAllOp ==
    /\ last.op = "none"
    /\ \E dst \in ScanSlices :
        \E r \in {ScanAll(fieldsCache, cursor, dst)} :
                /\ cursor # NoCursor /\ cursor.closed = 0
                /\ fieldsCache' = r.cache
                /\ cursor' = r.rows
                /\ last' = Scanned("ScanAll", dst, r)
                /\ Store

NextScan ==
    \/ OpenOp \/ ScanOp \/ ScanRowOp \/ ScanAllOp
    \/ LoadOp \/ QueryRowOp \/ QueryAllOp \/ Return

SpecScan == InitScan /\ [][NextScan]_vars

(***************************************************************************)
(* The descriptor builder called on its own, type by type.                 *)
(***************************************************************************)
GetFieldsOp ==
    /\ last.op = "none"
    /\ \E t \in Types :
        \E g \in {getFields(fieldsCache, t)} :
                /\ fieldsCache' = g.cache
                /\ last' = [op |-> "getFields", type |-> t, data |-> g.data, err |-> g.err]
                /\ UNCHANGED cursor
                /\ Store

NextFields == GetFieldsOp \/ Return

SpecFields == InitScan /\ [][NextFields]_vars

(***************************************************************************)
(* getFields called by several goroutines at once.  A call is the steps    *)
(* of scan.go:51-137 one after the other: Lock, the lookup in the cache,   *)
(* the build, the store into the cache, and the deferred Unlock with the   *)
(* return.  The steps of different goroutines interleave freely.           *)
(***************************************************************************)
\* the types the goroutines ask for
SharedTypes == {"*Person", "*EmbedPerson", "*TwoPk", "Person"}

\* a Lock that never waits
lockAlways(mutex) == TRUE

\* scan.go:52  fieldsCacheMutex.Lock() returns when the mutex is free
lockFree(mutex) == mutex = 0

Elsewhere ==
    UNCHANGED <<StmtCacheFunc, UseReturning, table, inserted, cursor, last, Debug>>

\* scan.go:51  a goroutine calls getFields(dstType)
Enter(c) ==
    /\ callers[c].pc = "outside"
    /\ \E t \in SharedTypes :
        callers' = [callers EXCEPT ![c] = [Outside EXCEPT !.pc = "lock", !.type = t]]
    /\ UNCHANGED <<fieldsCache, fieldsCacheMutex, builds, returned>>
    /\ Elsewhere

\* scan.go:52  fieldsCacheMutex.Lock()
Lock(c) ==
    /\ callers[c].pc = "lock"
    /\ lockFree(fieldsCacheMutex)
    /\ fieldsCacheMutex' = c
    /\ callers' = [callers EXCEPT ![c].pc = "lookup"]
    /\ UNCHANGED <<fieldsCache, builds, returned>>
    /\ Elsewhere

\* scan.go:55-57  the lookup in the cache
Lookup_(c) ==
    /\ callers[c].pc = "lookup"
    /\ callers' =
        IF callers[c].type \in DOMAIN fieldsCache
        THEN [callers EXCEPT ![c].pc = "unlock",
                             ![c].data = fieldsCache[callers[c].type]]
        ELSE [callers EXCEPT ![c].pc = "build"]
    /\ UNCHANGED <<fieldsCache, fieldsCacheMutex, builds, returned>>
    /\ Elsewhere

\* scan.go:59-133  the checks of the type and the loop over its fields
Build(c) ==
    /\ callers[c].pc = "build"
    /\ \E r \in {getFields(EmptyMap, callers[c].type)} :
        callers' =
            IF r.err # NoErr
            THEN [callers EXCEPT ![c].pc = "unlock", ![c].err = r.err]
            ELSE [callers EXCEPT ![c].pc = "store", ![c].data = r.data]
    /\ UNCHANGED <<fieldsCache, fieldsCacheMutex, builds, returned>>
    /\ Elsewhere

\* scan.go:135  fieldsCache[dstType] = data
Cache(c) ==
    /\ callers[c].pc = "store"
    /\ fieldsCache' = (callers[c].type :> callers[c].data) @@ fieldsCache
    /\ builds' = (callers[c].type :>
                    IF callers[c].type \in DOMAIN builds
                    THEN builds[callers[c].type] + 1 ELSE 1) @@ builds
    /\ callers' = [callers EXCEPT ![c].pc = "unlock"]
    /\ UNCHANGED <<fieldsCacheMutex, returned>>
    /\ Elsewhere

\* scan.go:53  the deferred fieldsCacheMutex.Unlock(), and the return
Unlock(c) ==
    /\ callers[c].pc = "unlock"
    /\ fieldsCacheMutex' = 0
    /\ returned' = returned \cup {<<callers[c].type, callers[c].data, callers[c].err>>}
    /\ callers' = [callers EXCEPT ![c] = Outside]
    /\ UNCHANGED <<fieldsCache, builds>>
    /\ Elsewhere

NextConc ==
    \E c \in Callers :
        Enter(c) \/ Lock(c) \/ Lookup_(c) \/ Build(c) \/ Cache(c) \/ Unlock(c)

SpecConc == InitScan /\ [][NextConc]_vars

(***************************************************************************)
(* The single-row scan with its diagnostics.  These are Targets,           *)
(* WriteTargets, scanRow and Scan once more, now with the lines that       *)
(* log.Printf prints under Debug; lines is what was printed so far.        *)
(***************************************************************************)
\* a log.Printf that does not ask for Debug
alwaysPrintf(debug, lines, line) == Append(lines, line)

\* scan.go:353-355, 389-391  if Debug { log.Printf(...) }
debugPrintf(debug, lines, line) == IF debug THEN Append(lines, line) ELSE lines

\* scan.go:343-359  the loop of Targets from column i (1-based) on
RECURSIVE targetsLoopLogged(_, _, _, _, _, _, _)
targetsLoopLogged(debug, data, dst, columns, i, targets, lines) ==
    IF i > Len(columns) THEN [targets |-> targets, err |-> NoErr, log |-> lines]
    ELSE IF columns[i] \in DOMAIN data.fields
    THEN With(PreRead(data.fields[columns[i]].meddler,
                      FieldKind(dst, data.fields[columns[i]].index)), LAMBDA r :
         IF r.err # NoErr
         THEN [targets |-> <<>>, log |-> lines,
               err |-> Errorf(<<"meddler.Targets: PreRead error on column %s: %v", columns[i], r.err.msg>>)]
         ELSE targetsLoopLogged(debug, data, dst, columns, i + 1,
                Append(targets, [to |-> r.target,
                                 index |-> data.fields[columns[i]].index,
                                 val |-> Nil]),
                lines))
    ELSE targetsLoopLogged(debug, data, dst, columns, i + 1,
            Append(targets, [to |-> "discard", index |-> -1, val |-> Nil]),
            debugPrintf(debug, lines,
                        <<"meddler.Targets: column [%s] not found in struct", columns[i]>>))

\* scan.go:334  Targets
TargetsLogged(debug, cache, dst, columns, lines) ==
    With(getFields(cache, dst.type), LAMBDA g :
        IF g.err # NoErr THEN [targets |-> <<>>, err |-> g.err, log |-> lines]
        ELSE targetsLoopLogged(debug, g.data, dst, columns, 1, <<>>, lines))

\* scan.go:379-392  the loop of WriteTargets from column i (1-based) on
RECURSIVE writeLoopLogged(_, _, _, _, _, _, _)
writeLoopLogged(debug, data, dst, columns, targets, i, lines) ==
    IF i > Len(columns) THEN [dst |-> dst, err |-> NoErr, log |-> lines]
    ELSE IF columns[i] \in DOMAIN data.fields
    THEN With(PostRead(data.fields[columns[i]].meddler,
                       FieldKind(dst, data.fields[columns[i]].index),
                       Field(dst, data.fields[columns[i]].index),
                       targets[i].val), LAMBDA r :
         IF r.err # NoErr
         THEN [dst |-> dst, log |-> lines,
               err |-> Errorf(<<"meddler.WriteTargets: PostRead error on column [%s]: %v", columns[i], r.err.msg>>)]
         ELSE writeLoopLogged(debug, data,
                              SetField(dst, data.fields[columns[i]].index, r.val),
                              columns, targets, i + 1, lines))
    ELSE writeLoopLogged(debug, data, dst, columns, targets, i + 1,
            debugPrintf(debug, lines,
                        <<"meddler.WriteTargets: column [%s] not found in struct", columns[i]>>))

\* scan.go:367  WriteTargets
WriteTargetsLogged(debug, cache, dst, columns, targets, lines) ==
    IF Len(columns) # Len(targets)
    THEN [dst |-> dst, log |-> lines,
          err |-> Errorf(<<"meddler.WriteTargets: mismatch in number of columns (%d) and targets (%d)", Len(columns), Len(targets)>>)]
    ELSE With(getFields(cache, dst.type), LAMBDA g :
         IF g.err # NoErr THEN [dst |-> dst, err |-> g.err, log |-> lines]
         ELSE writeLoopLogged(debug, g.data, dst, columns, targets, 1, lines))

\* scan.go:302  scanRow: the error, the record, the cursor and the lines
scanRowLogged(debug, cache, rows, dst, columns) ==
    With(Next_(rows), LAMBDA n :
    IF ~n.ok THEN [err |-> noRow(n.rows), dst |-> dst, rows |-> n.rows, log |-> <<>>]
    ELSE With(TargetsLogged(debug, cache, dst, columns, <<>>), LAMBDA t :
    IF t.err # NoErr THEN [err |-> t.err, dst |-> dst, rows |-> n.rows, log |-> t.log]
    ELSE With(rowsScan(dst, t.targets, n.row, 1), LAMBDA s :
    IF s.err # NoErr THEN [err |-> s.err, dst |-> s.dst, rows |-> n.rows, log |-> t.log]
    ELSE With(WriteTargetsLogged(debug, cache, s.dst, columns, s.targets, t.log), LAMBDA w :
    IF w.err # NoErr THEN [err |-> w.err, dst |-> w.dst, rows |-> n.rows, log |-> w.log]
    ELSE [err |-> Err_(n.rows), dst |-> w.dst, rows |-> n.rows, log |-> w.log]))))

\* scan.go:400  Scan
ScanLogged(debug, cache, rows, dst) ==
    With(getFields(cache, dst.type), LAMBDA g :
    IF g.err # NoErr
    THEN [err |-> g.err, dst |-> dst, rows |-> rows, cache |-> g.cache, log |-> <<>>]
    ELSE With(scanRowLogged(debug, g.cache, rows, dst, rows.cols), LAMBDA r :
         [err |-> r.err, dst |-> r.dst, rows |-> r.rows, cache |-> g.cache,
          log |-> r.log]))

\* the result columns and the cursors of the scans with diagnostics
DebugColumns == CursorColumns \cup {<<"extra", "name">>}
DebugCursors == UNION {CursorsOver(cols) : cols \in DebugColumns}

\* the records these scans fill
DebugDestinations == ScanDestinations \cup {NewRecord("*Blob")}

Untouched ==
    UNCHANGED <<StmtCacheFunc, UseReturning, table, inserted,
                fieldsCacheMutex, callers, builds, returned>>

\* the program assigns Debug
SetDebugOp ==
    /\ last.op = "none"
    /\ Debug' = ~Debug
    /\ UNCHANGED <<fieldsCache, cursor, last>>
    /\ Untouched

\* the caller obtains a cursor from its executor
OpenDebugOp ==
    /\ last.op = "none"
    /\ \E c \in DebugCursors : cursor' = c
    /\ UNCHANGED <<fieldsCache, last, Debug>>
    /\ Untouched

ScanLoggedOp ==
    /\ last.op = "none"
    /\ cursor # NoCursor
    /\ \E dst \in DebugDestinations :
        \E r \in {ScanLogged(Debug, fieldsCache, cursor, dst)} :
                /\ fieldsCache' = r.cache
                /\ cursor' = r.rows
                /\ last' = [op |-> "ScanLogged", dst |-> dst, before |-> cursor,
                            ret |-> r.err, rec |-> r.dst, rows |-> r.rows,
                            debug |-> Debug, log |-> r.log]
                /\ UNCHANGED Debug
                /\ Untouched

\* the caller takes the result of the scan
ReturnDebug ==
    /\ last.op # "none"
    /\ last' = [op |-> "none"]
    /\ UNCHANGED <<fieldsCache, cursor, Debug>>
    /\ Untouched

NextDebug == SetDebugOp \/ OpenDebugOp \/ ScanLoggedOp \/ ReturnDebug

SpecDebug == InitScan /\ [][NextDebug]_vars

(***************************************************************************)
(* Properties.  What a property says of a record's shape is read off the   *)
(* declaration of the shape, or off the descriptor the cache holds for it. *)
(***************************************************************************)
\* the field declaration holds the primary-key marker among its modifiers
pkTagged(f) == \E j \in 2..Len(Split(f.Tag)) : Split(f.Tag)[j] = "pk"

\* the shape of src declares a primary-key field and src holds a non-zero
\* value in it
DeclaresNonZeroPk(src) ==
    \E i \in 1..Len(TypeOf(src.type).Fields) :
        pkTagged(TypeOf(src.type).Fields[i]) /\ src.f[i].n # 0

\* the descriptor of src's shape was built
Built(src) == src.type \in DOMAIN fieldsCache

\* the value src holds in the primary-key field of its (built) descriptor
PkOf(src) ==
    Field(src, fieldsCache[src.type].fields[fieldsCache[src.type].pk].index).n

Keyed(src) == Built(src) /\ fieldsCache[src.type].pk # ""
Unkeyed(src) == Built(src) /\ fieldsCache[src.type].pk = ""

InsertPrecondition == Errorf(<<"meddler.Insert: primary key must be zero">>)
UpdatePreconditions ==
    { Errorf(<<"meddler.Update: no primary key field">>),
      Errorf(<<"meddler.Update: primary key must be an integer > 0">>) }

InsertRejectsKeyed ==
    (last.op = "Insert" /\ Keyed(last.src) /\ PkOf(last.src) # 0) =>
        /\ last.ret = InsertPrecondition
        /\ last.calls = <<>>
        /\ last.rec = last.src
        /\ table = last.before

\* an Insert of a record with a negative key, refused with the hook set
InsertRefused ==
    /\ last.op = "Insert"
    /\ Keyed(last.src) /\ PkOf(last.src) < 0
    /\ StmtCacheFunc = "stmt"
    /\ last.ret = InsertPrecondition
    /\ last.calls = <<>>

\* C3 as stated: Update on a record without primary-key field, or whose
\* key is zero or negative, returns a precondition error and performs no
\* executor operation and no lookup of the statement-cache hook.
UpdateRejectsWithPrecondition ==
    (last.op = "Update" /\ (Unkeyed(last.src) \/ (Keyed(last.src) /\ PkOf(last.src) < 1))) =>
        /\ last.ret \in UpdatePreconditions
        /\ last.calls = <<>>
        /\ table = last.before

\* C3 amended: such an Update returns an error and performs no executor
\* operation and no lookup of the statement-cache hook, leaving table and
\* record as they were; the error is the precondition error whenever the
\* values of the record can be gathered, and the error of gathering them
\* (a transformer's pre-write failure) otherwise.
UpdateRejectsUnkeyed ==
    (last.op = "Update" /\ (Unkeyed(last.src) \/ (Keyed(last.src) /\ PkOf(last.src) < 1))) =>
        /\ last.ret # NoErr
        /\ last.calls = <<>>
        /\ table = last.before
        /\ last.rec = last.src
        /\ \E values \in {Values(fieldsCache, last.src, FALSE)} :
            IF values.err = NoErr
            THEN last.ret = IF Unkeyed(last.src)
                            THEN Errorf(<<"meddler.Update: no primary key field">>)
                            ELSE Errorf(<<"meddler.Update: primary key must be an integer > 0">>)
            ELSE last.ret = values.err

\* an Update of a record with a negative key, refused with the hook set
UpdateRefused ==
    /\ last.op = "Update"
    /\ Keyed(last.src) /\ PkOf(last.src) < 0
    /\ StmtCacheFunc = "stmt"
    /\ last.ret \in UpdatePreconditions
    /\ last.calls = <<>>

\* a cursor was obtained from the executor by the call
Obtained == last.rows.cols # <<>>

\* C4: ScanRow and ScanAll, and with them Load, QueryRow and QueryAll once
\* they obtained a cursor, release the cursor exactly once on every exit,
\* whatever they return; Scan never releases it.
CursorReleased ==
    /\ last.op \in {"ScanRow", "ScanAll"} =>
        last.rows.closed = last.before.closed + 1 /\ cursor = last.rows
    /\ (last.op \in {"Load", "QueryRow", "QueryAll"} /\ Obtained) =>
        last.rows.closed = 1
    /\ last.op = "Scan" =>
        last.rows.closed = last.before.closed /\ cursor.closed = 0

\* a ScanAll that stopped at a transformer error with rows left unread, and
\* released the cursor
ReleasedOnTransformerError ==
    /\ last.op = "ScanAll"
    /\ last.dst.elt = "*Stamp"
    /\ last.ret.type = "errorString"
    /\ last.rows.pending # <<>>
    /\ last.rows.closed = 1

\* the field descriptor of built shape t for the result column col
FieldOf(t, col) == fieldsCache[t].fields[col]
KindOf(t, col) == TypeOf(t).Fields[FieldOf(t, col).index + 1].Kind

\* the row can be scanned into a record of built shape t
Fits(t, cols, row) ==
    \A c \in 1..Len(cols) :
        cols[c] \in DOMAIN fieldsCache[t].fields =>
            CASE FieldOf(t, cols[c]).meddler = "identity" ->
                    /\ row[c] # Nil \/ KindOf(t, cols[c]) = "Ptr"
                    /\ row[c] # Nil => row[c].k = KindOf(t, cols[c])
              [] FieldOf(t, cols[c]).meddler = "zeroisnull" -> TRUE
              [] FieldOf(t, cols[c]).meddler = "utctimez" ->
                    /\ KindOf(t, cols[c]) = "Struct"
                    /\ row[c] = Nil \/ row[c].k = "String"

\* the record of built shape t that the row stands for: a field with a
\* result column holds the column's value as its transformer finishes it,
\* every other field is zero
Expected(t, cols, row) ==
    [type |-> t,
     f |-> [i \in 1..Len(TypeOf(t).Fields) |->
        IF \E c \in 1..Len(cols) :
              cols[c] \in DOMAIN fieldsCache[t].fields /\ FieldOf(t, cols[c]).index = i - 1
        THEN With(CHOOSE c \in 1..Len(cols) :
                    cols[c] \in DOMAIN fieldsCache[t].fields
                    /\ FieldOf(t, cols[c]).index = i - 1, LAMBDA c :
             IF FieldOf(t, cols[c]).meddler = "identity" THEN row[c]
             ELSE IF row[c] = Nil THEN Zero(TypeOf(t).Fields[i].Kind)
             ELSE V(TypeOf(t).Fields[i].Kind, row[c].n))
        ELSE Zero(TypeOf(t).Fields[i].Kind)]]

\* ScanAll accepts the destination: a pointer to a slice of pointers to a
\* struct whose descriptor builds
Accepts(dst) == dst.shape = "*[]*T" /\ dst.elt \in DOMAIN fieldsCache

\* C5: ScanAll only appends.  The k records the destination held stay in
\* their positions and the records added are those of the first rows of the
\* cursor, in cursor order; over a cursor whose n rows can all be scanned
\* and that ends without error all n are added and nil is returned, the end
\* of the rows never being reported as an error; with n = 0 the destination
\* is unchanged.
ScanAllAppends ==
    last.op = "ScanAll" =>
        \E k \in {Len(last.dst.elems)}, n \in {Len(last.before.pending)},
           m \in {Len(last.rec.elems) - Len(last.dst.elems)} :
            /\ last.rec.shape = last.dst.shape /\ last.rec.elt = last.dst.elt
            /\ m \in 0..n
            /\ \A i \in 1..k : last.rec.elems[i] = last.dst.elems[i]
            /\ last.ret # ErrNoRows
            /\ ~Accepts(last.dst) => (m = 0 /\ last.ret # NoErr)
            /\ Accepts(last.dst) =>
                /\ \A j \in 1..m :
                    /\ Fits(last.dst.elt, last.before.cols, last.before.pending[j])
                    /\ last.rec.elems[k + j] =
                         Expected(last.dst.elt, last.before.cols, last.before.pending[j])
                /\ last.ret = NoErr <=> (m = n /\ last.before.err = NoErr)
                /\ m < n => ~Fits(last.dst.elt, last.before.cols, last.before.pending[m + 1])

\* a ScanAll that added the two rows of its cursor behind the record the
\* destination held
AppendedBehind ==
    /\ last.op = "ScanAll"
    /\ Len(last.dst.elems) = 1
    /\ Len(last.before.pending) = 2
    /\ Len(last.rec.elems) = 3
    /\ last.rec.elems[2] # last.rec.elems[3]
    /\ last.ret = NoErr

\* the call asked the cursor for a row when it had none and no error
FoundNoRow ==
    \/ /\ last.op \in {"Scan", "ScanRow"}
       /\ Built(last.dst)
       /\ last.before.pending = <<>> /\ last.before.err = NoErr
    \/ /\ last.op \in {"Load", "QueryRow"}
       /\ Obtained
       /\ last.rows.done /\ last.rows.err = NoErr

ExecutorCalled == Len(last.calls) = (IF StmtCacheFunc = "nil" THEN 1 ELSE 2)

\* C7 as stated: whenever the executor operation of Load, Insert, Update,
\* QueryRow or QueryAll fails, DriverErr applied to what the operation
\* returns gives the executor's own error and true; applied to an error
\* returned before anything was asked of the executor it gives the error
\* itself and false.
ExecutorFailuresWrapped ==
    last.op \in {"Load", "Insert", "Update", "QueryRow", "QueryAll"} =>
        /\ (last.fault = "call" /\ ExecutorCalled) =>
            /\ DriverErr(last.ret)[2]
            /\ DriverErr(last.ret)[1].type = "driver"
        /\ (last.ret # NoErr /\ last.calls = <<>>) =>
            DriverErr(last.ret) = <<last.ret, FALSE>>

\* C8 as stated: the descriptor of EmbedPerson has the six columns of the
\* exported, non-excluded fields of EmbedPerson, Metadata and SubMeta, six
\* field descriptors and no column for an embedding field.
EmbedPersonFlattened ==
    (last.op = "getFields" /\ last.type = "*EmbedPerson") =>
        /\ last.err = NoErr
        /\ Len(last.data.columns) = 6
        /\ Cardinality(DOMAIN last.data.fields) = 6
        /\ {last.data.columns[i] : i \in 1..Len(last.data.columns)} =
             {"id", "name", "height", "Email", "Age", "closed"}

\* the fields of a pointer-to-struct type that getFields maps, and those of
\* them marked primary key
MappedFields(t) ==
    {i \in 1..Len(TypeOf(t).Fields) :
        /\ TypeOf(t).Fields[i].PkgPath = ""
        /\ Split(TypeOf(t).Fields[i].Tag)[1] # "-"}

MarkedFields(t) == {i \in MappedFields(t) : pkTagged(TypeOf(t).Fields[i])}

\* the shape marks two fields primary key, or marks one that is no integer
\* or is held through a pointer
BadlyKeyed(t) ==
    /\ TypeOf(t).Kind = "Ptr" /\ TypeOf(t).ElemKind = "Struct"
    /\ \/ Cardinality(MarkedFields(t)) > 1
       \/ \E i \in MarkedFields(t) : TypeOf(t).Fields[i].Kind \notin IntKinds \cup UintKinds

\* the descriptor has at most one primary-key column, the one it names, and
\* the field of that column is a non-pointer integer
WellKeyed(t, data) ==
    /\ Cardinality({c \in DOMAIN data.fields : data.fields[c].primaryKey}) <= 1
    /\ \A c \in DOMAIN data.fields : data.fields[c].primaryKey <=> c = data.pk
    /\ data.pk # "" =>
        /\ data.pk \in DOMAIN data.fields
        /\ TypeOf(t).Fields[data.fields[data.pk].index + 1].Kind \in IntKinds \cup UintKinds
        /\ MarkedFields(t) = {data.fields[data.pk].index + 1}
    /\ data.pk = "" => MarkedFields(t) = {}

\* C9: getFields fails, caching nothing, for a shape with two fields marked
\* primary key and for a shape whose marked field is not an integer or is
\* held through a pointer; every descriptor returned or cached has at most
\* one primary-key column, whose field is a non-pointer integer.
PrimaryKeyValidated ==
    /\ last.op = "getFields" =>
        /\ BadlyKeyed(last.type) =>
            /\ last.err.type = "errorString"
            /\ last.data = NilData
            /\ last.type \notin DOMAIN fieldsCache
        /\ last.err = NoErr => WellKeyed(last.type, last.data)
    /\ \A t \in DOMAIN fieldsCache : WellKeyed(t, fieldsCache[t])
    /\ \A t \in {"*TwoPk", "*FloatPk", "*PtrPk"} : BadlyKeyed(t)

\* getFields refused the shape with two primary keys after building the
\* descriptor of a keyed shape
TwoPkRefused ==
    /\ last.op = "getFields"
    /\ last.type = "*TwoPk"
    /\ last.err # NoErr
    /\ "*Person" \in DOMAIN fieldsCache
    /\ fieldsCache["*Person"].pk = "id"

\* a Load, not made to fail, into a record of the shape of the record that
\* Insert left with the generated id last.arg
LoadsInserted ==
    /\ last.op = "Load"
    /\ last.arg \in DOMAIN inserted
    /\ last.src.type = inserted[last.arg].type
    /\ last.fault = "none" /\ StmtCacheFunc # "fail"

\* field i of the shape has a column
Mapped(t, i) == \E c \in DOMAIN fieldsCache[t].fields : fieldsCache[t].fields[c].index = i - 1

\* C10 as stated: Load with the key Insert wrote gives a record equal field
\* by field to the record Insert left.
RoundTripEveryField ==
    LoadsInserted => (last.ret = NoErr /\ last.rec = inserted[last.arg])

\* C10 amended: Load with the key Insert wrote succeeds and gives a record
\* equal to the record Insert left on every field that has a column, the
\* primary-key field holding the generated id; a field without column
\* (excluded by its tag, or unexported) keeps what the destination held.
RoundTrip ==
    LoadsInserted =>
        /\ last.ret = NoErr
        /\ PkOf(inserted[last.arg]) = last.arg
        /\ PkOf(last.rec) = last.arg
        /\ \A i \in 1..Len(last.rec.f) :
            last.rec.f[i] = IF Mapped(last.src.type, i)
                            THEN inserted[last.arg].f[i]
                            ELSE last.src.f[i]

\* a Load of the second inserted record into a destination that held other
\* values, restoring a non-zero nullable field
LoadedBack ==
    /\ LoadsInserted
    /\ last.arg = 2
    /\ last.src # NewRecord(last.src.type)
    /\ last.rec.f[3] = V("Int", 1)
    /\ last.rec # last.src
    /\ last.ret = NoErr

\* the goroutines between Lock and Unlock
Holders == {c \in Callers : callers[c].pc \in {"lookup", "build", "store", "unlock"}}

\* what holds of the cache and of the descriptors returned so far
BuiltOnce ==
    /\ \A x, y \in returned : x[1] = y[1] => x = y
    /\ \A x \in returned :
        x[3] = NoErr => (x[1] \in DOMAIN fieldsCache /\ fieldsCache[x[1]] = x[2])
    /\ DOMAIN builds = DOMAIN fieldsCache
    /\ \A t \in DOMAIN builds : builds[t] = 1
    /\ Cardinality(Holders) <= 1
    /\ \A c \in Holders : fieldsCacheMutex = c

\* a step keeps every entry of the cache as it is
CacheKept ==
    \A t \in DOMAIN fieldsCache :
        t \in DOMAIN fieldsCache' /\ fieldsCache'[t] = fieldsCache[t]

\* C11: in every interleaving of any number of getFields calls by
\* concurrent goroutines, the calls for one shape return the same
\* descriptor (columns in the same order, the same primary key, the same
\* transformer bindings) or the same error; at most one goroutine is
\* between Lock and Unlock, a descriptor is stored at most once per shape,
\* and no step replaces or changes an entry of the cache.
ConcurrentIdempotence == []BuiltOnce /\ [][CacheKept]_vars

\* a goroutine waits at the lock for the shape another one has just stored,
\* after an earlier call for a shape that does not build has returned
WaitsForBuilder ==
    /\ callers[1].pc = "unlock" /\ callers[1].type = "*Person"
    /\ callers[2].pc = "lock" /\ callers[2].type = "*Person"
    /\ fieldsCacheMutex = 1
    /\ "*Person" \in DOMAIN builds
    /\ \E x \in returned : x[1] = "*TwoPk" /\ x[3] # NoErr

\* the single-row scan that has just been made, and whether a row was there
ScannedRow ==
    /\ last.op = "ScanLogged"
    /\ Built(last.dst)
    /\ Next_(last.before).ok

\* the positions of the result columns that no field of the record matches
Unmatched ==
    {i \in 1..Len(last.before.cols) :
        last.before.cols[i] \notin DOMAIN fieldsCache[last.dst.type].fields}

\* the lines one pass over the columns prints, one for each unmatched column
RECURSIVE PassLines(_, _)
PassLines(format, i) ==
    IF i > Len(last.before.cols) THEN <<>>
    ELSE (IF i \in Unmatched THEN <<(<<format, last.before.cols[i]>>)>> ELSE <<>>)
         \o PassLines(format, i + 1)

TargetsLines == PassLines("meddler.Targets: column [%s] not found in struct", 1)
WriteTargetsLines == PassLines("meddler.WriteTargets: column [%s] not found in struct", 1)

IsPrefix(s, t) == Len(s) <= Len(t) /\ SubSeq(t, 1, Len(s)) = s

\* the record, the error and the cursor do not depend on Debug
SameInBothSettings ==
    last.op = "ScanLogged" =>
        /\ \E o \in {ScanLogged(~last.debug, fieldsCache, last.before, last.dst)} :
              o.err = last.ret /\ o.dst = last.rec /\ o.rows = last.rows
        /\ \E o \in {Scan(fieldsCache, last.before, last.dst)} :
              o.err = last.ret /\ o.dst = last.rec /\ o.rows = last.rows

SilentWhenOff == (last.op = "ScanLogged" /\ ~last.debug) => last.log = <<>>

\* C12 as stated: an unmatched column is dropped silently when Debug is off;
\* with Debug on a row scanned through prints exactly one line for each
\* unmatched column; record and error are the same in both settings.
OneLinePerUnmatchedColumn ==
    /\ SilentWhenOff
    /\ SameInBothSettings
    /\ (ScannedRow /\ last.debug /\ last.ret = NoErr) =>
            Len(last.log) = Cardinality(Unmatched)

\* C12, amended: an unmatched column is dropped silently when Debug is off;
\* with Debug on Targets prints one line for each unmatched column and
\* WriteTargets prints one more for each, so a row scanned through prints
\* exactly two lines for each unmatched column, and a scan that stops early
\* prints the lines of the passes made until then; record and error are the
\* same in both settings.
TwoLinesPerUnmatchedColumn ==
    /\ SilentWhenOff
    /\ SameInBothSettings
    /\ (last.op = "ScanLogged" /\ ~ScannedRow) => last.log = <<>>
    /\ (ScannedRow /\ last.debug) =>
          /\ IsPrefix(last.log, TargetsLines \o WriteTargetsLines)
          /\ last.ret = NoErr =>
                /\ last.log = TargetsLines \o WriteTargetsLines
                /\ Len(last.log) = 2 * Cardinality(Unmatched)

\* a row of two unmatched columns was scanned through with Debug on
TwoUnmatchedScanned ==
    /\ ScannedRow
    /\ last.debug
    /\ last.ret = NoErr
    /\ Cardinality(Unmatched) = 2
    /\ Len(last.log) = 4

====
